---- MODULE Spec2Model ----
(***************************************************************************)
(* Cortex Cost Calculator (streamlit_app.py): the usage-analytics          *)
(* pipeline of one Streamlit session.  A script run loads a frame of usage *)
(* rows, then renders the historical tab (rolling 30-record totals), the   *)
(* projection tab (persona estimator, growth projection) and the summary   *)
(* tab.  Numbers are modelled as the non-negative rationals plus the two   *)
(* IEEE specials the code can produce (NaN, +inf); every input is an       *)
(* integer or a dyadic rational, for which float arithmetic is exact.      *)
(***************************************************************************)
EXTENDS Integers, Sequences, FiniteSets, TLC

\* ------------------------------------------------------------------ bounds
\* most rows of an enumerated small frame
MaxRows == 3
\* most records per service of a long daily series
MaxLen == 31
\* largest projection horizon explored
MaxMonths == 3
\* most personas the session list is grown to
MaxPersonas == 3
\* most rows of an uploaded file
MaxCsvRows == 1
\* most persona edits, removals and additions of one session
MaxInteractions == 3

\* ------------------------------------------------------- program constants
\* rolling(window=30, ...)
WINDOW == 30
\* rolling(..., min_periods=1)
MIN_PERIODS == 1
\* operations_30d_total / 30, requests_per_day * 30
DAYS_PER_MONTH == 30
\* st.slider("Projection Period (months)", min_value=3, ...)
MIN_PROJECTION_MONTHS == 3
\* st.slider("Projection Period (months)", ..., value=12)
DEFAULT_PROJECTION_MONTHS == 12
\* the month whose total the "Month 12 Cost" metric reads
MONTH_12 == 12
\* st.number_input("Number of Users", min_value=1, ...)
MIN_COUNT == 1
\* st.number_input("Requests per Day", min_value=1, ...)
MIN_REQUESTS_PER_DAY == 1

\* ---------------------------------------------------------------- numbers
\* A float: a non-negative rational n/d in lowest terms, NaN or +inf.
RECURSIVE GCD(_, _)
GCD(a, b) == IF b = 0 THEN a ELSE GCD(b, a % b)

Num(n, d) ==
    LET g == GCD(n, d)
    IN  [t |-> "num", n |-> n \div g, d |-> d \div g]

NaN == [t |-> "nan", n |-> 0, d |-> 1]
Inf == [t |-> "inf", n |-> 0, d |-> 1]
Int2F(i) == Num(i, 1)
Zero == Int2F(0)

IsNum(x) == x.t = "num"
IsZero(x) == x.t = "num" /\ x.n = 0

\* x > 0 as Python/numpy evaluate it: False for NaN
FGt0(x) == x.t = "inf" \/ (x.t = "num" /\ x.n > 0)

\* a < b on numbers
FLess(a, b) == a.n * b.d < b.n * a.d

FAdd(a, b) ==
    IF a.t = "nan" \/ b.t = "nan" THEN NaN
    ELSE IF a.t = "inf" \/ b.t = "inf" THEN Inf
    ELSE LET l == (a.d \div GCD(a.d, b.d)) * b.d
         IN  Num(a.n * (l \div a.d) + b.n * (l \div b.d), l)

FMul(a, b) ==
    IF a.t = "nan" \/ b.t = "nan" THEN NaN
    ELSE IF a.t = "inf" THEN (IF IsZero(b) THEN NaN ELSE Inf)
    ELSE IF b.t = "inf" THEN (IF IsZero(a) THEN NaN ELSE Inf)
    ELSE LET g1 == GCD(a.n, b.d)
             g2 == GCD(b.n, a.d)
         IN  Num((a.n \div g1) * (b.n \div g2), (a.d \div g2) * (b.d \div g1))

\* float true division: x/0 is +inf for x > 0 and NaN for x = 0, no exception
FDiv(a, b) ==
    IF a.t = "nan" \/ b.t = "nan" THEN NaN
    ELSE IF a.t = "inf" THEN (IF b.t = "inf" THEN NaN ELSE Inf)
    ELSE IF b.t = "inf" THEN Zero
    ELSE IF b.n = 0 THEN (IF a.n = 0 THEN NaN ELSE Inf)
    ELSE FMul(a, Num(b.d, b.n))

RECURSIVE FPow(_, _)
FPow(x, k) == IF k = 0 THEN Int2F(1) ELSE FMul(x, FPow(x, k - 1))

\* Series.fillna(0): only NaN is replaced
fillna0(x) == IF x.t = "nan" THEN Zero ELSE x

RECURSIVE FSumSeq(_)
FSumSeq(s) == IF s = <<>> THEN Zero ELSE FAdd(FSumSeq(SubSeq(s, 1, Len(s) - 1)), s[Len(s)])

Max(a, b) == IF a >= b THEN a ELSE b

\* ------------------------------------------------------------ column names
REQUIRED_COLS == <<"DATE", "SERVICE_TYPE", "TOTAL_CREDITS">>
OPTIONAL_COLS == {"DAILY_UNIQUE_USERS", "TOTAL_OPERATIONS"}
ALL_COLS == {"DATE", "SERVICE_TYPE", "TOTAL_CREDITS"} \cup OPTIONAL_COLS

\* str.upper() on the header names that occur in the uploaded files
upper(name) ==
    CASE name \in {"DATE", "Date", "date"} -> "DATE"
      [] name \in {"SERVICE_TYPE", "service_type"} -> "SERVICE_TYPE"
      [] name \in {"TOTAL_CREDITS", "total_credits"} -> "TOTAL_CREDITS"
      [] name \in {"DAILY_UNIQUE_USERS", "daily_unique_users"} -> "DAILY_UNIQUE_USERS"
      [] name \in {"TOTAL_OPERATIONS", "total_operations"} -> "TOTAL_OPERATIONS"

lower(name) ==
    CASE name = "DATE" -> "date"
      [] name = "SERVICE_TYPE" -> "service_type"
      [] name = "TOTAL_CREDITS" -> "total_credits"
      [] name = "DAILY_UNIQUE_USERS" -> "daily_unique_users"
      [] name = "TOTAL_OPERATIONS" -> "total_operations"

\* ----------------------------------------------------------- input frames
\* groupby() yields its groups in sorted key order
SERVICES_SORTED == <<"ANALYST", "SEARCH">>
Services == {SERVICES_SORTED[i] : i \in 1..Len(SERVICES_SORTED)}
Rank(s) == CHOOSE i \in 1..Len(SERVICES_SORTED) : SERVICES_SORTED[i] = s

Row(d, s, c, o, u) ==
    [DATE |-> d, SERVICE_TYPE |-> s, TOTAL_CREDITS |-> c,
     TOTAL_OPERATIONS |-> o, DAILY_UNIQUE_USERS |-> u]

\* the (credits, operations, users) of a record of a small frame
Measures == { <<0, 0, 0>>, <<2, 0, 0>>, <<0, 4, 2>>, <<2, 4, 2>>, <<6, 4, 1>> }
SmallDates == {1, 2}
Keys == SmallDates \X Services
Absent == <<>>

\* usage tables unique per (date, service_type), of at most MaxRows records
SmallTables ==
    { { Row(k[1], k[2], f[k][1], f[k][2], f[k][3]) : k \in {x \in Keys : f[x] # Absent} } :
        f \in { g \in [Keys -> Measures \cup {Absent}] :
                  Cardinality({x \in Keys : g[x] # Absent}) <= MaxRows } }

\* series of n records per service; the second service, when present, reports on
\* the same dates with other values; the "ramp" series reports every other day
LongProfiles == {"uniform", "skewed", "ramp"}
LongRow(profile, s, d) ==
    LET k == Rank(s) IN
    CASE profile = "uniform" -> Row(d, s, k, 100 * k, k)
      [] profile = "skewed"  -> Row(d, s, (IF d = 1 THEN 2 ELSE IF d = 2 THEN 0 ELSE 1) + 7 * (k - 1),
                                    100 * k, IF d = 1 THEN 0 ELSE k)
      [] profile = "ramp"    -> Row(2 * d, s, d * k, (d % 3) * k, d % 2)
\* a long series as the rows of "... ORDER BY date DESC"
LongSeq(p, n, K) ==
    [i \in 1..(n * K) |-> LongRow(p, SERVICES_SORTED[K - ((i - 1) % K)], n - ((i - 1) \div K))]
LongSeqs ==
    { LongSeq(p, n, K) : p \in LongProfiles, n \in WINDOW..MaxLen, K \in 1..Len(SERVICES_SORTED) }

\* one record holding the 1000 credits of the documented projection example
ExampleTables == { { Row(1, "ANALYST", 1000, 50, 4) } }

RECURSIVE OrderDesc(_)
\* a table as the rows of "... ORDER BY date DESC"
OrderDesc(T) ==
    IF T = {} THEN <<>>
    ELSE LET r == CHOOSE x \in T : \A y \in T :
                      \/ y.DATE < x.DATE
                      \/ (y.DATE = x.DATE /\ Rank(y.SERVICE_TYPE) <= Rank(x.SERVICE_TYPE))
         IN  <<r>> \o OrderDesc(T \ {r})

Reverse(s) == [i \in 1..Len(s) |-> s[Len(s) + 1 - i]]

\* ------------------------------------------------------- pandas operations
\* A frame is [columns |-> set of names, rows |-> sequence of records]; a record
\* has exactly the fields of `columns` (plus the derived ones added below).
EmptyFrame == [columns |-> {}, rows |-> <<>>]
None == [columns |-> {"None"}, rows |-> <<>>]
empty(df) == df.rows = <<>>

\* the stable arrangement of rows by DATE (ties keep their frame order)
SortAsc(rows) ==
    LET n == Len(rows)
        pos == [i \in 1..n |->
                  1 + Cardinality({j \in 1..n : \/ rows[j].DATE < rows[i].DATE
                                                \/ (rows[j].DATE = rows[i].DATE /\ j < i)})]
    IN  [p \in 1..n |-> rows[CHOOSE i \in 1..n : pos[i] = p]]

SortDesc(rows) ==
    LET n == Len(rows)
        pos == [i \in 1..n |->
                  1 + Cardinality({j \in 1..n : \/ rows[j].DATE > rows[i].DATE
                                                \/ (rows[j].DATE = rows[i].DATE /\ j < i)})]
    IN  [p \in 1..n |-> rows[CHOOSE i \in 1..n : pos[i] = p]]

\* DataFrame.sort_values('DATE', ascending=...)
sort_values(rows, ascending) == IF ascending THEN SortAsc(rows) ELSE SortDesc(rows)

\* the rows of one group of groupby('SERVICE_TYPE'), in frame order
Group(rows, s) ==
    LET InGroup(r) == r.SERVICE_TYPE = s
    IN  SelectSeq(rows, InGroup)

\* the group keys present, in sorted order
GroupKeys(rows) ==
    LET Present(s) == \E i \in 1..Len(rows) : rows[i].SERVICE_TYPE = s
    IN  SelectSeq(SERVICES_SORTED, Present)

RECURSIVE SumRange(_, _, _)
\* x[lo] + ... + x[hi]
SumRange(x, lo, hi) == IF lo > hi THEN 0 ELSE SumRange(x, lo, hi - 1) + x[hi]

\* WindowStart with a window one record too long
WindowStartOffByOne(j) == Max(1, j - WINDOW)

\* first position of the window that ends at position j (1-based)
WindowStart(j) == Max(1, j - WINDOW + 1)

\* Series.rolling(window=30, min_periods=1).sum() at position j
rolling_sum(x, j) ==
    LET lo == WindowStart(j)
    IN  IF j - lo + 1 < MIN_PERIODS THEN NaN ELSE Int2F(SumRange(x, lo, j))

\* Series.rolling(window=30, min_periods=1).mean() at position j
rolling_mean(x, j) ==
    LET lo == WindowStart(j)
    IN  IF j - lo + 1 < MIN_PERIODS THEN NaN ELSE Num(SumRange(x, lo, j), j - lo + 1)

\* the position of row p of the frame inside its group
PosInGroup(rows, p) == Cardinality({q \in 1..p : rows[q].SERVICE_TYPE = rows[p].SERVICE_TYPE})

\* the order in which calculate_30day_totals returns its rows (line 102)
ReturnOrder(rows) == sort_values(rows, FALSE)

\* calculate_30day_totals raises KeyError on a missing column (lines 86-94)
Raises30day(df) ==
    ~empty(df) /\ ~({"DATE", "SERVICE_TYPE", "TOTAL_CREDITS", "TOTAL_OPERATIONS",
                     "DAILY_UNIQUE_USERS"} \subseteq df.columns)

calculate_30day_totals(df) ==
    IF empty(df) THEN EmptyFrame
    ELSE
      LET df_sorted == sort_values(df.rows, TRUE)
          grp == [s \in Services |-> Group(df_sorted, s)]
          rolled == [s \in Services |->
                       [j \in 1..Len(grp[s]) |->
                          LET credits == [i \in 1..Len(grp[s]) |-> grp[s][i].TOTAL_CREDITS]
                              ops == [i \in 1..Len(grp[s]) |-> grp[s][i].TOTAL_OPERATIONS]
                              users == [i \in 1..Len(grp[s]) |-> grp[s][i].DAILY_UNIQUE_USERS]
                              c30 == rolling_sum(credits, j)
                              u30 == rolling_mean(users, j)
                          IN  [credits_30d_total |-> c30,
                               operations_30d_total |-> rolling_sum(ops, j),
                               users_30d_avg |-> u30,
                               cost_per_user_30d |-> fillna0(FDiv(c30, u30))]]]
          out == [p \in 1..Len(df_sorted) |->
                    df_sorted[p] @@ rolled[df_sorted[p].SERVICE_TYPE][PosInGroup(df_sorted, p)]]
      IN  [columns |-> df.columns \cup {"credits_30d_total", "operations_30d_total",
                                        "users_30d_avg", "cost_per_user_30d"},
           rows |-> ReturnOrder(out)]

\* groupby('SERVICE_TYPE').last().reset_index(): per group, the last row in frame order
groupby_last(rows) ==
    LET keys == GroupKeys(rows)
    IN  [k \in 1..Len(keys) |-> LET g == Group(rows, keys[k]) IN g[Len(g)]]

\* Series.sum() / Series.mean() of an integer column over rows
RECURSIVE ColSum(_, _)
ColSum(rows, col) ==
    IF rows = <<>> THEN 0
    ELSE ColSum(SubSeq(rows, 1, Len(rows) - 1), col) + rows[Len(rows)][col]

ColMean(rows, col) == IF rows = <<>> THEN NaN ELSE Num(ColSum(rows, col), Len(rows))

\* len(df['DATE'].unique())
DistinctDates(rows) == Cardinality({rows[i].DATE : i \in 1..Len(rows)})

\* ------------------------------------------------------ growth projection
\* df.groupby('SERVICE_TYPE').agg({...}) raises KeyError on a missing column
RaisesProjection(df) ==
    ~({"SERVICE_TYPE", "TOTAL_CREDITS", "DAILY_UNIQUE_USERS"} \subseteq df.columns)

\* baseline = df.groupby('SERVICE_TYPE').agg({'TOTAL_CREDITS': 'sum',
\*                                            'DAILY_UNIQUE_USERS': 'mean'})
Baseline(df) ==
    LET keys == GroupKeys(df.rows)
    IN  [k \in 1..Len(keys) |->
           LET g == Group(df.rows, keys[k])
           IN  [SERVICE_TYPE |-> keys[k],
                TOTAL_CREDITS |-> Int2F(ColSum(g, "TOTAL_CREDITS")),
                DAILY_UNIQUE_USERS |-> ColMean(g, "DAILY_UNIQUE_USERS")]]

\* simple instead of compound growth: 1 + growth_rate * month
GrowthFactorLinear(growth_rate, month) == FAdd(Int2F(1), FMul(growth_rate, Int2F(month)))

\* the exponent dropped: 1 + growth_rate for every month
GrowthFactorFlat(growth_rate, month) == FAdd(Int2F(1), growth_rate)

\* growth_factor = (1 + growth_rate) ** month
GrowthFactor(growth_rate, month) == FPow(FAdd(Int2F(1), growth_rate), month)

ProjectionPoint(service, month, growth_rate, credit_cost) ==
    LET growth_factor == GrowthFactor(growth_rate, month)
        projected_credits == FMul(service.TOTAL_CREDITS, growth_factor)
        projected_users == FMul(service.DAILY_UNIQUE_USERS, growth_factor)
        projected_cost == FMul(projected_credits, credit_cost)
    IN  [month |-> month,
         service_type |-> service.SERVICE_TYPE,
         projected_credits |-> projected_credits,
         projected_users |-> projected_users,
         projected_cost_usd |-> projected_cost,
         cost_per_user_usd |-> IF FGt0(projected_users)
                               THEN FDiv(projected_cost, projected_users) ELSE Zero,
         growth_rate |-> growth_rate]

\* the months the outer loop visits: range(1, projection_months + 1)
LastMonth(projection_months) == projection_months

calculate_growth_projection(df, growth_rate, projection_months, credit_cost) ==
    LET baseline == Baseline(df)
        K == Len(baseline)
    IN  [i \in 1..(LastMonth(projection_months) * K) |->
           ProjectionPoint(baseline[((i - 1) % K) + 1], ((i - 1) \div K) + 1,
                           growth_rate, credit_cost)]

\* Series.sum(): NaN entries are skipped
SeriesSum(s) == FSumSeq(SelectSeq(s, LAMBDA x : x.t # "nan"))

\* the keys of groupby('month'): the months of the frame, ascending
MonthKeys(projection_df) ==
    LET M == {projection_df[i].month : i \in 1..Len(projection_df)}
    IN  [k \in 1..Cardinality(M) |->
           CHOOSE m \in M : Cardinality({x \in M : x < m}) = k - 1]

\* ['projected_cost_usd'].sum() of the group of month m
MonthSum(projection_df, m) ==
    LET points == SelectSeq(projection_df, LAMBDA pt : pt.month = m)
    IN  SeriesSum([i \in 1..Len(points) |-> points[i].projected_cost_usd])

\* one row per key, in key order
GroupSums(projection_df, keys) ==
    [k \in 1..Len(keys) |->
       [month |-> keys[k], projected_cost_usd |-> MonthSum(projection_df, keys[k])]]

\* monthly_totals = projection_df.groupby('month')['projected_cost_usd'].sum()
\*                               .reset_index()
MonthlyTotals(projection_df) == GroupSums(projection_df, MonthKeys(projection_df))

\* monthly_totals[monthly_totals['month'] == m]['projected_cost_usd'].iloc[0]
TotalOfMonth(monthly_totals, m) ==
    LET k == CHOOSE k \in 1..Len(monthly_totals) : monthly_totals[k].month = m
    IN  monthly_totals[k].projected_cost_usd

\* the "Month 1 Cost" metric
Month1Cost(monthly_totals) ==
    IF Len(monthly_totals) > 0 THEN TotalOfMonth(monthly_totals, 1) ELSE Zero

\* the "Month 12 Cost" metric
Month12Cost(monthly_totals) ==
    IF Len(monthly_totals) >= MONTH_12 THEN TotalOfMonth(monthly_totals, MONTH_12) ELSE Zero

\* the "Total Year Cost" metric
TotalYearCost(monthly_totals) ==
    SeriesSum([k \in 1..Len(monthly_totals) |-> monthly_totals[k].projected_cost_usd])

\* ------------------------------------------------------- historical tab
RaisesHistorical(df) ==
    \/ ~({"TOTAL_CREDITS", "DATE", "DAILY_UNIQUE_USERS"} \subseteq df.columns)
    \/ Raises30day(df)

\* latest_30d of show_historical_analysis (lines 317-319)
HistoricalLatest(with30d, credit_cost) ==
    LET latest == groupby_last(with30d.rows)
    IN  [k \in 1..Len(latest) |->
           latest[k] @@ [COST_30D_USD |-> FMul(latest[k].credits_30d_total, credit_cost),
                         COST_PER_USER_30D_USD |-> FMul(latest[k].cost_per_user_30d, credit_cost)]]

\* ---------------------------------------------------- persona estimator
\* latest_30d of show_cost_per_user_calculator (lines 535-550); the else branch
\* runs on an empty frame only, whose groupby has no groups
CalculatorLatest(with30d, credit_cost) ==
    IF ~empty(with30d)
    THEN LET latest == groupby_last(with30d.rows)
         IN  [k \in 1..Len(latest) |->
                latest[k] @@
                [requests_per_day |-> FDiv(latest[k].operations_30d_total, Int2F(DAYS_PER_MONTH)),
                 users_in_env |-> latest[k].users_30d_avg,
                 cost_per_request |-> FDiv(FMul(latest[k].credits_30d_total, credit_cost),
                                           latest[k].operations_30d_total)]]
    ELSE <<>>

\* the plain mean of the services' cost_per_request, whatever their operations
AvgOfCostPerRequest(latest) ==
    IF latest = <<>> THEN Zero
    ELSE FDiv(FSumSeq([k \in 1..Len(latest) |-> latest[k].cost_per_request]),
              Int2F(Len(latest)))

\* lines 643-648
AvgCostPerRequest(latest) ==
    LET total_ops == FMul(FSumSeq([k \in 1..Len(latest) |-> latest[k].requests_per_day]),
                          Int2F(DAYS_PER_MONTH))
        total_cost_30d ==
            FSumSeq([k \in 1..Len(latest) |->
                       FMul(FMul(latest[k].requests_per_day, Int2F(DAYS_PER_MONTH)),
                            latest[k].cost_per_request)])
    IN  IF FGt0(total_ops) THEN FDiv(total_cost_30d, total_ops) ELSE Zero

DEFAULT_PERSONAS ==
    << [name |-> "Power User", count |-> 10, requests_per_day |-> 50],
       [name |-> "Regular User", count |-> 30, requests_per_day |-> 20] >>

\* the persona the "Add Another Persona" button appends (lines 628-632)
NewPersona(n) ==
    [name |-> CASE n + 1 = 2 -> "User Type 2" [] n + 1 = 3 -> "User Type 3"
                [] n + 1 = 4 -> "User Type 4" [] OTHER -> "User Type N",
     count |-> 10, requests_per_day |-> 20]

\* st.number_input(min_value=...): the widget never returns less than its minimum
number_input(min_value, typed) == Max(min_value, typed)

\* the trash buttons are shown whatever the length of the list
RemoveAlwaysOffered(personas) == TRUE

\* line 617: the trash buttons are rendered only for a list of two or more
RemoveOffered(personas) == Len(personas) > 1

\* st.session_state.user_personas_simple.pop(idx), idx counted from 1
pop(personas, idx) ==
    [i \in 1..(Len(personas) - 1) |-> IF i < idx THEN personas[i] ELSE personas[i + 1]]

\* lines 589-614: the widgets of persona idx write their values back into the list;
\* one of them holds what the operator has just typed
WithName(personas, idx, typed) == [personas EXCEPT ![idx].name = typed]
WithCount(personas, idx, typed) ==
    [personas EXCEPT ![idx].count = number_input(MIN_COUNT, typed)]
WithRequests(personas, idx, typed) ==
    [personas EXCEPT ![idx].requests_per_day = number_input(MIN_REQUESTS_PER_DAY, typed)]

\* lines 652-665, the numbers behind one row of the results table
PersonaResult(persona, avg) ==
    LET monthly_requests == persona.requests_per_day * DAYS_PER_MONTH
        cost_per_user_monthly == FMul(Int2F(monthly_requests), avg)
        total_cost_monthly == FMul(cost_per_user_monthly, Int2F(persona.count))
    IN  [Persona |-> persona.name, Users |-> persona.count,
         RequestsPerDay |-> persona.requests_per_day,
         monthly_requests |-> monthly_requests,
         avg_cost_per_request |-> avg,
         cost_per_user_monthly |-> cost_per_user_monthly,
         total_cost_monthly |-> total_cost_monthly]

\* the monthly requests of one user only: the head count forgotten
PersonaMonthlyRequestsPerUser(p) == p.requests_per_day * DAYS_PER_MONTH

\* lines 676-679: p['requests_per_day'] * 30 * p['count']
PersonaMonthlyRequests(p) == p.requests_per_day * DAYS_PER_MONTH * p.count

\* lines 672-675: p['requests_per_day'] * 30 * avg_cost_per_request * p['count']
PersonaMonthlyCost(p, avg) ==
    FMul(FMul(Int2F(p.requests_per_day * DAYS_PER_MONTH), avg), Int2F(p.count))

\* sum(...) over a list of ints
RECURSIVE IntSum(_)
IntSum(s) == IF s = <<>> THEN 0 ELSE IntSum(SubSeq(s, 1, Len(s) - 1)) + s[Len(s)]

\* lines 671-680, the four summary metrics
PersonaSummary(personas, avg) ==
    LET total_users == IntSum([i \in 1..Len(personas) |-> personas[i].count])
        total_monthly_cost ==
            FSumSeq([i \in 1..Len(personas) |-> PersonaMonthlyCost(personas[i], avg)])
        total_monthly_requests ==
            IntSum([i \in 1..Len(personas) |-> PersonaMonthlyRequests(personas[i])])
    IN  [total_users |-> total_users,
         total_monthly_cost |-> total_monthly_cost,
         total_monthly_requests |-> total_monthly_requests,
         avg_cost_per_user |-> IF total_users > 0
                               THEN FDiv(total_monthly_cost, Int2F(total_users))
                               ELSE Zero]

\* ------------------------------------------------------------ summary tab
RaisesSummary(df) ==
    \/ ~({"TOTAL_CREDITS", "DATE", "SERVICE_TYPE", "DAILY_UNIQUE_USERS",
          "TOTAL_OPERATIONS"} \subseteq df.columns)
    \/ RaisesProjection(df)

RECURSIVE InsertByCredits(_, _)
InsertByCredits(r, s) ==
    IF s = <<>> THEN <<r>>
    ELSE IF ~FLess(s[Len(s)].TOTAL_CREDITS, r.TOTAL_CREDITS) THEN Append(s, r)
    ELSE Append(InsertByCredits(r, SubSeq(s, 1, Len(s) - 1)), s[Len(s)])

RECURSIVE SortByCreditsDesc(_)
SortByCreditsDesc(rows) ==
    IF rows = <<>> THEN <<>>
    ELSE InsertByCredits(rows[Len(rows)], SortByCreditsDesc(SubSeq(rows, 1, Len(rows) - 1)))

\* PCT_OF_TOTAL = TOTAL_CREDITS / TOTAL_CREDITS.sum() * 100 (line 757)
PctOfTotal(credits, total) == FMul(FDiv(credits, total), Int2F(100))

\* service_agg of show_summary_report (lines 751-758)
ServiceAgg(df, credit_cost) ==
    LET keys == GroupKeys(df.rows)
        agg == [k \in 1..Len(keys) |->
                  LET g == Group(df.rows, keys[k])
                  IN  [SERVICE_TYPE |-> keys[k],
                       TOTAL_CREDITS |-> Int2F(ColSum(g, "TOTAL_CREDITS")),
                       DAILY_UNIQUE_USERS |-> ColMean(g, "DAILY_UNIQUE_USERS"),
                       TOTAL_OPERATIONS |-> Int2F(ColSum(g, "TOTAL_OPERATIONS"))]]
        total == FSumSeq([k \in 1..Len(agg) |-> agg[k].TOTAL_CREDITS])
    IN  SortByCreditsDesc(
          [k \in 1..Len(agg) |->
             agg[k] @@ [TOTAL_COST_USD |-> FMul(agg[k].TOTAL_CREDITS, credit_cost),
                        PCT_OF_TOTAL |-> PctOfTotal(agg[k].TOTAL_CREDITS, total)]])

\* ---------------------------------------------------------------- loading
\* the header rows of the uploaded files explored
Headers ==
    { ALL_COLS,
      {lower(c) : c \in ALL_COLS},
      {"Date", "SERVICE_TYPE", "total_credits", "DAILY_UNIQUE_USERS", "TOTAL_OPERATIONS"},
      ALL_COLS \ {"DAILY_UNIQUE_USERS"},
      ALL_COLS \ {"TOTAL_OPERATIONS"},
      ALL_COLS \ OPTIONAL_COLS,
      {lower(c) : c \in ALL_COLS \ OPTIONAL_COLS},
      ALL_COLS \ {"TOTAL_CREDITS"},
      {lower(c) : c \in ALL_COLS \ {"TOTAL_CREDITS"}} }

\* a source holding the records t under the column names of header h
FileOf(h, t) ==
    [header |-> h,
     table |-> [i \in 1..Len(t) |-> [n \in h |-> t[i][upper(n)]]]]

\* pd.read_csv: the columns are named as the header names them
read_csv(file) == [columns |-> file.header, rows |-> file.table]

\* the required-column lookup of line 150
MissingCols(columns) ==
    LET Missing(col) == col \notin columns
    IN  SelectSeq(REQUIRED_COLS, Missing)

\* df.columns = df.columns.str.upper()
UpperColumns(df) ==
    LET cols == {upper(n) : n \in df.columns}
    IN  [columns |-> cols,
         rows |-> [i \in 1..Len(df.rows) |->
                     [c \in cols |-> df.rows[i][CHOOSE n \in df.columns : upper(n) = c]]]]

load_data_from_csv(file) ==
    LET df == read_csv(file)
    IN  IF MissingCols(df.columns) # <<>> THEN None ELSE UpperColumns(df)

\* session.sql(query).to_pandas(): Snowflake names the selected columns in upper case
to_pandas(file) == [columns |-> ALL_COLS, rows |-> file.table]

\* what session.sql(query).to_pandas() can do on the source: raise (the object is
\* missing, the role lacks access), find no row in the lookback window, or return
\* the rows the source holds
QueryResults(file) ==
    {[raised |-> TRUE, frame |-> None]}
    \cup {[raised |-> FALSE, frame |-> [columns |-> ALL_COLS, rows |-> <<>>]],
          [raised |-> FALSE, frame |-> to_pandas(file)]}

\* the entry a query leaves in the run's query log
Issued(query, result) ==
    [query |-> query,
     outcome |-> IF result.raised THEN "raise"
                 ELSE IF empty(result.frame) THEN "empty" ELSE "rows"]

\* the snapshot result is thrown away whatever it holds
SnapshotDiscarded(result) == FALSE

\* lines 49-54: the try block returns the snapshot frame (`if not df.empty: return df`)
SnapshotReturned(result) == ~result.raised /\ ~empty(result.frame)

\* ------------------------------------------------------------------ state
VARIABLES
    data_source,        \* the sidebar's "Data Source" choice
    file,               \* what the chosen source holds: [header, table]
    pc,                 \* where the script run stands
    queries,            \* the queries fetch_data_from_views has sent in this run,
                        \* kept until main() goes on to render the tabs
    credit_cost,        \* sidebar "Cost per Credit (USD)"
    df,                 \* main()'s df
    df_with_30d,        \* the last result of calculate_30day_totals
    hist_latest_30d,    \* show_historical_analysis's latest_30d
    latest_30d,         \* show_cost_per_user_calculator's latest_30d
    avg_cost_per_request,
    persona_results,
    persona_summary,    \* total_users, total_monthly_cost, total_monthly_requests,
                        \* avg_cost_per_user
    session_state,      \* st.session_state
    interactions,       \* persona edits, removals and additions so far
    projection_months,
    growth_rate,
    projection_df,      \* show_cost_projections's projection_df
    month_1_cost,       \* the three metrics under the projection sliders
    month_12_cost,
    total_year_cost,
    service_agg         \* show_summary_report's service_agg

run_vars == <<queries, df, df_with_30d, hist_latest_30d, latest_30d, avg_cost_per_request,
              persona_results, persona_summary, projection_months, growth_rate,
              projection_df, month_1_cost, month_12_cost, total_year_cost, service_agg>>
vars == <<data_source, file, pc, credit_cost, session_state, interactions,
          run_vars>>

\* the values of the sidebar and of the projection sliders that are explored
CreditCosts == {Int2F(2), Int2F(3)}
GrowthPercents == {0, 25, 100}

\* the slider positions explored: the short horizons with every growth rate, and
\* the default horizon and the one after it with a rate whose powers stay in range
ProjectionChoices ==
    {<<H, p>> : H \in MIN_PROJECTION_MONTHS..MaxMonths, p \in GrowthPercents}
    \cup {<<H, 100>> : H \in {DEFAULT_PROJECTION_MONTHS, DEFAULT_PROJECTION_MONTHS + 1}}

\* what the operator types into a number input, and into a name field
TypedNumbers == {0, 5}
TypedNames == {"Analyst"}

CsvTables == {T \in SmallTables : Cardinality(T) <= MaxCsvRows}

\* nothing has been computed or shown yet in this script run
Fresh ==
    /\ queries = <<>>
    /\ df = None
    /\ df_with_30d = EmptyFrame
    /\ hist_latest_30d = <<>>
    /\ latest_30d = <<>>
    /\ avg_cost_per_request = Zero
    /\ persona_results = <<>>
    /\ persona_summary = <<>>
    /\ projection_months = 0
    /\ growth_rate = Zero
    /\ projection_df = <<>>
    /\ month_1_cost = Zero
    /\ month_12_cost = Zero
    /\ total_year_cost = Zero
    /\ service_agg = <<>>

\* st.rerun() / a new script run: every local of the previous run is gone
ResetRun ==
    /\ queries' = <<>>
    /\ df' = None
    /\ df_with_30d' = EmptyFrame
    /\ hist_latest_30d' = <<>>
    /\ latest_30d' = <<>>
    /\ avg_cost_per_request' = Zero
    /\ persona_results' = <<>>
    /\ persona_summary' = <<>>
    /\ projection_months' = 0
    /\ growth_rate' = Zero
    /\ projection_df' = <<>>
    /\ month_1_cost' = Zero
    /\ month_12_cost' = Zero
    /\ total_year_cost' = Zero
    /\ service_agg' = <<>>

Init ==
    /\ \/ /\ data_source = "views"
          /\ file \in {FileOf(ALL_COLS, t) :
                         t \in {OrderDesc(T) : T \in SmallTables \cup ExampleTables}
                                 \cup LongSeqs}
       \/ /\ data_source = "csv"
          /\ file \in {FileOf(h, Reverse(OrderDesc(T))) : h \in Headers, T \in CsvTables}
    /\ pc = "start"
    /\ credit_cost = Int2F(3)
    /\ session_state = [k \in {} |-> <<>>]
    /\ interactions = 0
    /\ Fresh

\* main(), lines 191-234: the sidebar widgets are read
Sidebar ==
    /\ pc = "start"
    /\ \E c \in CreditCosts : credit_cost' = c
    /\ pc' = "load"
    /\ UNCHANGED <<interactions, data_source, file, session_state, run_vars>>

\* main(), lines 260-267, on the frame d the source returned
MainLoaded(d) ==
    IF d = None \/ empty(d)
    THEN /\ pc' = "nodata"
         /\ df' = d
    ELSE /\ pc' = "tab1"
         /\ df' = UpperColumns(d)

\* main(), lines 246-249 with load_data_from_csv
LoadCsv ==
    /\ pc = "load"
    /\ data_source = "csv"
    /\ MainLoaded(load_data_from_csv(file))
    /\ UNCHANGED <<queries, interactions, data_source, file, credit_cost, session_state,
                   df_with_30d, hist_latest_30d, latest_30d, avg_cost_per_request,
                   persona_results, persona_summary, projection_months, growth_rate,
                   projection_df, month_1_cost, month_12_cost, total_year_cost,
                   service_agg>>

\* fetch_data_from_views, lines 49-54: the snapshot query raises, or returns a frame
FetchSnapshot ==
    /\ pc = "load"
    /\ data_source = "views"
    /\ \E result \in QueryResults(file) :
         /\ queries' = Append(queries, Issued("snapshot", result))
         /\ IF SnapshotReturned(result)
            THEN MainLoaded(result.frame)
            ELSE /\ pc' = "fallback"
                 /\ df' = df
    /\ UNCHANGED <<interactions, data_source, file, credit_cost, session_state, df_with_30d,
                   hist_latest_30d, latest_30d, avg_cost_per_request, persona_results,
                   persona_summary, projection_months, growth_rate, projection_df,
                   month_1_cost, month_12_cost, total_year_cost, service_agg>>

\* fetch_data_from_views, line 75, and main()'s except clause, lines 242-245
FetchLive ==
    /\ pc = "fallback"
    /\ \E result \in QueryResults(file) :
         /\ queries' = Append(queries, Issued("live", result))
         /\ IF result.raised
            THEN /\ pc' = "query_error"
                 /\ df' = df
            ELSE MainLoaded(result.frame)
    /\ UNCHANGED <<interactions, data_source, file, credit_cost, session_state, df_with_30d,
                   hist_latest_30d, latest_30d, avg_cost_per_request, persona_results,
                   persona_summary, projection_months, growth_rate, projection_df,
                   month_1_cost, month_12_cost, total_year_cost, service_agg>>

\* show_historical_analysis, lines 285-405
HistoricalAnalysis ==
    /\ pc = "tab1"
    /\ queries' = <<>>
    /\ IF RaisesHistorical(df)
       THEN /\ pc' = "crashed"
            /\ UNCHANGED <<df_with_30d, hist_latest_30d>>
       ELSE /\ df_with_30d' = calculate_30day_totals(df)
            /\ hist_latest_30d' = HistoricalLatest(df_with_30d', credit_cost)
            /\ pc' = "tab2"
    /\ UNCHANGED <<interactions, data_source, file, credit_cost, session_state, df,
                   latest_30d, avg_cost_per_request, persona_results, persona_summary,
                   projection_months, growth_rate, projection_df, month_1_cost,
                   month_12_cost, total_year_cost, service_agg>>

\* st.session_state.user_personas_simple after lines 578-582
Personas ==
    IF "user_personas_simple" \in DOMAIN session_state
    THEN session_state.user_personas_simple
    ELSE DEFAULT_PERSONAS

\* show_cost_per_user_calculator, lines 530-680, on the session list `personas`
Estimate(personas) ==
    /\ df_with_30d' = calculate_30day_totals(df)
    /\ latest_30d' = CalculatorLatest(df_with_30d', credit_cost)
    /\ session_state' = [user_personas_simple |-> personas]
    /\ avg_cost_per_request' = AvgCostPerRequest(latest_30d')
    /\ persona_results' =
         [i \in 1..Len(personas) |-> PersonaResult(personas[i], avg_cost_per_request')]
    /\ persona_summary' = PersonaSummary(personas, avg_cost_per_request')
    /\ pc' = "proj"

\* show_cost_per_user_calculator, lines 525-693, no button pressed
CalculatorEstimate ==
    /\ pc = "tab2"
    /\ IF Raises30day(df)
       THEN /\ pc' = "crashed"
            /\ UNCHANGED <<df_with_30d, latest_30d, avg_cost_per_request, persona_results,
                           persona_summary, session_state>>
       ELSE Estimate(Personas)
    /\ UNCHANGED <<queries, interactions, data_source, file, credit_cost, df,
                   hist_latest_30d, projection_months, growth_rate, projection_df,
                   month_1_cost, month_12_cost, total_year_cost, service_agg>>

\* show_cost_per_user_calculator, lines 525-693, after the operator changed one
\* persona widget: the loop of lines 586-614 writes the value into the list and the
\* estimate is made on the edited list
CalculatorEditPersona ==
    /\ pc = "tab2"
    /\ ~Raises30day(df)
    /\ interactions < MaxInteractions
    /\ \E idx \in 1..Len(Personas) :
         \E edited \in {WithName(Personas, idx, t) : t \in TypedNames}
                       \cup {WithCount(Personas, idx, t) : t \in TypedNumbers}
                       \cup {WithRequests(Personas, idx, t) : t \in TypedNumbers} :
            /\ edited # Personas
            /\ Estimate(edited)
    /\ interactions' = interactions + 1
    /\ UNCHANGED <<queries, data_source, file, credit_cost, df, hist_latest_30d,
                   projection_months, growth_rate, projection_df, month_1_cost,
                   month_12_cost, total_year_cost, service_agg>>

\* show_cost_per_user_calculator, lines 525-624, a trash button pressed: the first
\* pop is followed by st.rerun(), which ends the loop and restarts the script
CalculatorRemovePersona ==
    /\ pc = "tab2"
    /\ ~Raises30day(df)
    /\ interactions < MaxInteractions
    /\ RemoveOffered(Personas)
    /\ \E idx \in 1..Len(Personas) :
         session_state' = [user_personas_simple |-> pop(Personas, idx)]
    /\ interactions' = interactions + 1
    /\ pc' = "start"
    /\ ResetRun
    /\ UNCHANGED <<data_source, file, credit_cost>>

\* show_cost_per_user_calculator, lines 525-633, "Add Another Persona" pressed:
\* the persona is appended and st.rerun() restarts the script
CalculatorAddPersona ==
    /\ pc = "tab2"
    /\ ~Raises30day(df)
    /\ interactions < MaxInteractions
    /\ Len(Personas) < MaxPersonas
    /\ session_state' = [user_personas_simple |-> Append(Personas, NewPersona(Len(Personas)))]
    /\ interactions' = interactions + 1
    /\ pc' = "start"
    /\ ResetRun
    /\ UNCHANGED <<data_source, file, credit_cost>>

\* show_cost_projections, lines 425-453
GrowthProjection ==
    /\ pc = "proj"
    /\ IF RaisesProjection(df)
       THEN /\ pc' = "crashed"
            /\ UNCHANGED <<projection_months, growth_rate, projection_df, month_1_cost,
                           month_12_cost, total_year_cost>>
       ELSE /\ \E choice \in ProjectionChoices :
                 /\ projection_months' = choice[1]
                 /\ growth_rate' = Num(choice[2], 100)
                 /\ projection_df' = calculate_growth_projection(df, growth_rate',
                                                                 projection_months', credit_cost)
            /\ \E monthly_totals \in {MonthlyTotals(projection_df')} :
                   /\ month_1_cost' = Month1Cost(monthly_totals)
                   /\ month_12_cost' = Month12Cost(monthly_totals)
                   /\ total_year_cost' = TotalYearCost(monthly_totals)
            /\ pc' = "tab3"
    /\ UNCHANGED <<queries, interactions, data_source, file, credit_cost, session_state, df,
                   df_with_30d, hist_latest_30d, latest_30d, avg_cost_per_request,
                   persona_results, persona_summary, service_agg>>

\* show_summary_report, lines 695-781
SummaryReport ==
    /\ pc = "tab3"
    /\ IF RaisesSummary(df)
       THEN /\ pc' = "crashed"
            /\ UNCHANGED service_agg
       ELSE /\ service_agg' = ServiceAgg(df, credit_cost)
            /\ pc' = "done"
    /\ UNCHANGED <<queries, interactions, data_source, file, credit_cost, session_state, df,
                   df_with_30d, hist_latest_30d, latest_30d, avg_cost_per_request,
                   persona_results, persona_summary, projection_months, growth_rate,
                   projection_df, month_1_cost, month_12_cost, total_year_cost>>

\* a widget interaction after the run has ended starts the script again
Rerun ==
    /\ pc \in {"done", "nodata", "query_error", "crashed"}
    /\ pc' = "start"
    /\ ResetRun
    /\ UNCHANGED <<interactions, data_source, file, credit_cost, session_state>>

Next ==
    \/ Sidebar
    \/ LoadCsv
    \/ FetchSnapshot
    \/ FetchLive
    \/ HistoricalAnalysis
    \/ CalculatorEstimate
    \/ CalculatorAddPersona
    \/ GrowthProjection
    \/ SummaryReport
    \/ Rerun

Spec == Init /\ [][Next]_vars

\* ------------------------------------------------ the persona session
\* One uploaded file, and every operator action on the persona list.
SessionInit ==
    /\ Init
    /\ data_source = "csv"
    /\ file = FileOf(ALL_COLS, <<Row(1, "ANALYST", 2, 4, 2)>>)

SessionNext ==
    \/ Sidebar
    \/ LoadCsv
    \/ HistoricalAnalysis
    \/ CalculatorEstimate
    \/ CalculatorEditPersona
    \/ CalculatorRemovePersona
    \/ CalculatorAddPersona
    \/ GrowthProjection
    \/ SummaryReport
    \/ Rerun

SpecSession == SessionInit /\ [][SessionNext]_vars

\* ================================================================= claims
\* the records of service s in main()'s frame
RecordsOf(s) == {i \in 1..Len(df.rows) : df.rows[i].SERVICE_TYPE = s}

\* the 0-indexed position of record i inside its service's date-ascending sequence
DatePos(i) ==
    Cardinality({j \in RecordsOf(df.rows[i].SERVICE_TYPE) : df.rows[j].DATE < df.rows[i].DATE})

RECURSIVE SumOver(_, _, _)
\* the sum of column col over the records of df whose index is in I, indices 1..n scanned
SumOver(I, col, n) ==
    IF n = 0 THEN 0
    ELSE SumOver(I, col, n - 1) + (IF n \in I THEN df.rows[n][col] ELSE 0)

\* the aggregate each selected row carries is the one calculate_30day_totals attached
\* to the record of that service with the greatest date
SelectsLastRecord(latest) ==
    \A k \in 1..Len(latest) :
       \A p \in 1..Len(df_with_30d.rows) :
          LET r == df_with_30d.rows[p]
          IN  ( /\ r.SERVICE_TYPE = latest[k].SERVICE_TYPE
                /\ \A i \in RecordsOf(r.SERVICE_TYPE) : df.rows[i].DATE <= r.DATE )
              => /\ latest[k].credits_30d_total = r.credits_30d_total
                 /\ latest[k].operations_30d_total = r.operations_30d_total
                 /\ latest[k].users_30d_avg = r.users_30d_avg
                 /\ latest[k].cost_per_user_30d = r.cost_per_user_30d

\* C1: for every service with records on at least two dates, the aggregate that
\* groupby(SERVICE_TYPE).last() selects, in the persona calculator and in the
\* historical display, is the one attached to the record with the greatest date.
C1_MostRecentIsLastRecord ==
    /\ SelectsLastRecord(hist_latest_30d)
    /\ SelectsLastRecord(latest_30d)

\* C2: the rolling totals of the record at 0-indexed position i of a service are
\* taken over the records at positions max(0, i-29)..i of that service only: at most
\* 30 records, i+1 of them when i < 29, none of another service.
C2_WindowIsTrailing30OfService ==
    pc \in {"tab2", "proj"} =>
      \A p \in 1..Len(df_with_30d.rows) :
         LET r == df_with_30d.rows[p]
             S == RecordsOf(r.SERVICE_TYPE)
             me == CHOOSE i \in S : df.rows[i].DATE = r.DATE
             pos == DatePos(me)
             W == {j \in S : DatePos(j) >= pos - 29 /\ DatePos(j) <= pos}
             n == Len(df.rows)
         IN  /\ Cardinality(W) <= 30
             /\ (pos < 29 => Cardinality(W) = pos + 1)
             /\ r.credits_30d_total = Int2F(SumOver(W, "TOTAL_CREDITS", n))
             /\ r.operations_30d_total = Int2F(SumOver(W, "TOTAL_OPERATIONS", n))
             /\ r.users_30d_avg = Num(SumOver(W, "DAILY_UNIQUE_USERS", n), Cardinality(W))

\* a service with more than 30 records has been aggregated next to another service
\* reporting on the same dates
C2_Witness ==
    /\ pc = "tab2"
    /\ \E p, q \in 1..Len(df_with_30d.rows) :
          /\ df_with_30d.rows[p].SERVICE_TYPE # df_with_30d.rows[q].SERVICE_TYPE
          /\ df_with_30d.rows[p].DATE = df_with_30d.rows[q].DATE
          /\ df_with_30d.rows[p].DATE > 30
          /\ Cardinality(RecordsOf(df_with_30d.rows[p].SERVICE_TYPE)) > 30

\* C3: a record whose users_30d_avg is 0 has cost_per_user_30d exactly 0, whatever
\* its credits_30d_total.
C3_ZeroUsersGiveZeroCostPerUser ==
    \A p \in 1..Len(df_with_30d.rows) :
       IsZero(df_with_30d.rows[p].users_30d_avg) => df_with_30d.rows[p].cost_per_user_30d = Zero

\* C4: a service whose operations_30d_total is 0 gets cost_per_request 0, and
\* avg_cost_per_request is always a number: 0 when the total of operations is 0,
\* otherwise the blend in which the zero-operation services contribute cost 0.
C4_ZeroOperationsResolveToZero ==
    LET ops == FSumSeq([k \in 1..Len(latest_30d) |-> latest_30d[k].operations_30d_total])
        cost == FSumSeq([k \in 1..Len(latest_30d) |->
                           IF IsZero(latest_30d[k].operations_30d_total) THEN Zero
                           ELSE FMul(latest_30d[k].credits_30d_total, credit_cost)])
    IN  /\ \A k \in 1..Len(latest_30d) :
              IsZero(latest_30d[k].operations_30d_total) => latest_30d[k].cost_per_request = Zero
        /\ IsNum(avg_cost_per_request)
        /\ avg_cost_per_request = (IF IsZero(ops) THEN Zero ELSE FDiv(cost, ops))

RECURSIVE IntPow(_, _)
IntPow(b, k) == IF k = 0 THEN 1 ELSE b * IntPow(b, k - 1)

\* the services present in main()'s frame
ServicesPresent == {df.rows[i].SERVICE_TYPE : i \in 1..Len(df.rows)}

\* the full-history sum of TOTAL_CREDITS of service s
BaselineCredits(s) == SumOver(RecordsOf(s), "TOTAL_CREDITS", Len(df.rows))

Projected == pc \in {"tab3", "done"}

\* C5: the projection holds exactly one point per month 1..H and service present,
\* with projected_credits = baseline_credits * (1+r)^m over the full-history
\* baseline and projected_cost_usd = projected_credits * c.
C5_ProjectionIsCompoundedBaseline ==
    Projected =>
      /\ Len(projection_df) = projection_months * Cardinality(ServicesPresent)
      /\ {<<projection_df[i].month, projection_df[i].service_type>> : i \in 1..Len(projection_df)}
           = (1..projection_months) \X ServicesPresent
      /\ \A i \in 1..Len(projection_df) :
            LET pt == projection_df[i]
                m == pt.month
            IN  /\ IsNum(pt.projected_credits)
                /\ pt.projected_credits.n * IntPow(growth_rate.d, m)
                     = BaselineCredits(pt.service_type)
                         * IntPow(growth_rate.d + growth_rate.n, m) * pt.projected_credits.d
                /\ IsNum(pt.projected_cost_usd)
                /\ pt.projected_cost_usd.n * pt.projected_credits.d * credit_cost.d
                     = pt.projected_credits.n * credit_cost.n * pt.projected_cost_usd.d

\* the documented example: baseline 1000 at r = 0.25 gives 1250 and 1562.5
C5_Witness ==
    /\ Projected
    /\ growth_rate = Num(1, 4)
    /\ \E i, j \in 1..Len(projection_df) :
          /\ BaselineCredits(projection_df[i].service_type) = 1000
          /\ projection_df[i].service_type = projection_df[j].service_type
          /\ projection_df[i].month = 1 /\ projection_df[i].projected_credits = Num(1250, 1)
          /\ projection_df[j].month = 2 /\ projection_df[j].projected_credits = Num(3125, 2)

\* C6 as claimed: per service, projected_credits is strictly increasing in the month
\* whenever r > 0 and the same for every month when r = 0.
C6_StrictlyIncreasingWheneverGrowth ==
    Projected =>
      \A i, j \in 1..Len(projection_df) :
         ( /\ projection_df[i].service_type = projection_df[j].service_type
           /\ projection_df[i].month < projection_df[j].month )
         => IF FGt0(growth_rate)
            THEN FLess(projection_df[i].projected_credits, projection_df[j].projected_credits)
            ELSE projection_df[i].projected_credits = projection_df[j].projected_credits

\* C6 as amended: per service, projected_credits is strictly increasing in the month
\* whenever r > 0 and the service's baseline credits are > 0, and is the same for
\* every month when r = 0 or the baseline credits are 0.
C6_StrictlyIncreasingOnPositiveBaseline ==
    Projected =>
      \A i, j \in 1..Len(projection_df) :
         ( /\ projection_df[i].service_type = projection_df[j].service_type
           /\ projection_df[i].month < projection_df[j].month )
         => IF FGt0(growth_rate) /\ BaselineCredits(projection_df[i].service_type) > 0
            THEN FLess(projection_df[i].projected_credits, projection_df[j].projected_credits)
            ELSE projection_df[i].projected_credits = projection_df[j].projected_credits

\* a projection at r > 0 over one service with credits and one whose credits are all 0
C6_Witness ==
    /\ Projected
    /\ FGt0(growth_rate)
    /\ projection_months >= 2
    /\ \E s, t \in ServicesPresent : BaselineCredits(s) = 0 /\ BaselineCredits(t) > 0
    /\ \E i \in 1..Len(projection_df) : projection_df[i].month = projection_months

\* C7: PCT_OF_TOTAL sums to 100 over the services when the grand total of
\* TOTAL_CREDITS is > 0 and is 0 for every service when the grand total is 0.
C7_PercentOfTotal ==
    pc = "done" =>
      IF SumOver(1..Len(df.rows), "TOTAL_CREDITS", Len(df.rows)) > 0
      THEN FSumSeq([k \in 1..Len(service_agg) |-> service_agg[k].PCT_OF_TOTAL]) = Int2F(100)
      ELSE \A k \in 1..Len(service_agg) : service_agg[k].PCT_OF_TOTAL = Zero

\* the session's persona list
PersonaList == session_state.user_personas_simple

\* C8: per persona, monthly_requests = requests_per_day * 30, cost_per_user_monthly =
\* monthly_requests * avg_cost_per_request and total_cost_monthly =
\* cost_per_user_monthly * user_count, with avg_cost_per_request derived from the
\* 30-record totals: one service with 30 daily records summing to 3000 operations
\* and 30 credits at credit_cost 3 gives cost_per_request 0.03, and a persona of 10
\* users at 20 requests per day gives 600, 18.00 and 180.00.
C8_PersonaCostsFrom30RecordTotals ==
    pc = "proj" =>
      /\ Len(persona_results) = Len(PersonaList)
      /\ \A i \in 1..Len(persona_results) :
            LET r == persona_results[i]
                p == PersonaList[i]
            IN  /\ r.monthly_requests = p.requests_per_day * 30
                /\ r.cost_per_user_monthly = FMul(Int2F(r.monthly_requests), avg_cost_per_request)
                /\ r.total_cost_monthly = FMul(r.cost_per_user_monthly, Int2F(p.count))
      /\ ( /\ Cardinality(ServicesPresent) = 1
           /\ Len(df.rows) = 30
           /\ DistinctDates(df.rows) = 30
           /\ SumOver(1..30, "TOTAL_OPERATIONS", 30) = 3000
           /\ SumOver(1..30, "TOTAL_CREDITS", 30) = 30
           /\ credit_cost = Int2F(3)
           /\ \E i \in 1..Len(PersonaList) :
                 PersonaList[i].count = 10 /\ PersonaList[i].requests_per_day = 20 )
         => /\ latest_30d[1].cost_per_request = Num(3, 100)
            /\ avg_cost_per_request = Num(3, 100)
            /\ \A i \in 1..Len(PersonaList) :
                  (PersonaList[i].count = 10 /\ PersonaList[i].requests_per_day = 20)
                  => /\ persona_results[i].monthly_requests = 600
                     /\ persona_results[i].cost_per_user_monthly = Int2F(18)
                     /\ persona_results[i].total_cost_monthly = Int2F(180)

\* the header's names, matched without regard to letter case
HeaderUpper == {upper(n) : n \in file.header}
RequiredSet == {REQUIRED_COLS[i] : i \in 1..Len(REQUIRED_COLS)}

\* C9: an uploaded file is rejected for a missing required column exactly when one
\* of date, service_type, total_credits is absent after case-insensitive matching.
C9_RequiredLookupIgnoresCase ==
    (data_source = "csv" /\ pc \notin {"start", "load"})
    => ((df = None) <=> ~(RequiredSet \subseteq HeaderUpper))

\* C10: with the three required columns present and daily_unique_users and/or
\* total_operations missing, the missing column reads 0 for every record and the
\* aggregation, projection, persona estimate and summary all complete.
C10_MissingOptionalColumnsReadZero ==
    ( /\ data_source = "csv"
      /\ RequiredSet \subseteq HeaderUpper
      /\ ~(OPTIONAL_COLS \subseteq HeaderUpper) )
    => /\ pc # "crashed"
       /\ pc = "done" =>
            \A c \in OPTIONAL_COLS \ HeaderUpper :
               /\ c \in df.columns
               /\ \A i \in 1..Len(df.rows) : df.rows[i][c] = 0

\* the projection points of month m
PointsOfMonth(m) == {i \in 1..Len(projection_df) : projection_df[i].month = m}

\* the projected_cost_usd of the points in I among the first n, added up
RECURSIVE CostOfPoints(_, _)
CostOfPoints(I, n) ==
    IF n = 0 THEN Zero
    ELSE FAdd(CostOfPoints(I, n - 1),
              IF n \in I THEN projection_df[n].projected_cost_usd ELSE Zero)

\* C11: for the selected horizon H the reported total cost is the sum over months
\* 1..H of the per-month totals of projected_cost_usd, and the reported final-month
\* cost is the per-month total at month H itself.
C11_TotalsFollowSelectedHorizon ==
    Projected =>
       /\ total_year_cost = CostOfPoints(1..Len(projection_df), Len(projection_df))
       /\ month_12_cost = CostOfPoints(PointsOfMonth(projection_months), Len(projection_df))

\* the estimator has shown its table and summary in this run
Estimated == pc \in {"proj", "tab3", "done"}

RECURSIVE UsersThrough(_)
UsersThrough(n) == IF n = 0 THEN 0 ELSE UsersThrough(n - 1) + PersonaList[n].count

RECURSIVE RequestsThrough(_)
RequestsThrough(n) ==
    IF n = 0 THEN 0
    ELSE RequestsThrough(n - 1)
         + PersonaList[n].requests_per_day * 30 * PersonaList[n].count

\* the table's total_cost_monthly values of rows 1..n, added up
RECURSIVE TableCostThrough(_)
TableCostThrough(n) ==
    IF n = 0 THEN Zero
    ELSE FAdd(TableCostThrough(n - 1), persona_results[n].total_cost_monthly)

\* C12: in the persona summary total_users is the sum of the personas' counts,
\* total_monthly_requests the sum of requests_per_day * 30 * count,
\* total_monthly_cost the sum of the table's per-persona total_cost_monthly, and
\* avg_cost_per_user is total_monthly_cost / total_users (0 when there are no users).
C12_SummaryAddsUpThePersonas ==
    Estimated =>
       LET n == Len(PersonaList)
       IN  /\ Len(persona_results) = n
           /\ persona_summary.total_users = UsersThrough(n)
           /\ persona_summary.total_monthly_requests = RequestsThrough(n)
           /\ persona_summary.total_monthly_cost = TableCostThrough(n)
           /\ persona_summary.avg_cost_per_user =
                  IF UsersThrough(n) = 0 THEN Zero
                  ELSE FDiv(TableCostThrough(n), Int2F(UsersThrough(n)))

\* a summary over three personas with a positive cost
C12_Witness ==
    /\ Estimated
    /\ Len(PersonaList) = 3
    /\ IsNum(persona_summary.total_monthly_cost)
    /\ FGt0(persona_summary.total_monthly_cost)
    /\ persona_summary.total_users = 50

\* C13: the snapshot query is always the first one sent and the live-view query is
\* sent only after the snapshot query raised or returned no row; a snapshot result
\* with at least one row is what main() receives, with no live query sent; when
\* neither query yields a row the run ends at the no-data warning or the query
\* error message, never in an uncaught exception.
C13_LiveViewOnlyAsFallback ==
    data_source = "views" =>
       /\ pc \in {"fallback", "tab1", "nodata", "query_error"}
            => (queries # <<>> /\ queries[1].query = "snapshot")
       /\ Len(queries) <= 2
       /\ \A i \in 1..Len(queries) :
             queries[i].query = "live"
             => (i = 2 /\ queries[1].query = "snapshot"
                       /\ queries[1].outcome \in {"raise", "empty"})
       /\ pc = "fallback" => Len(queries) = 1
       /\ (queries # <<>> /\ queries[1].outcome = "rows")
            => (Len(queries) = 1 /\ pc = "tab1" /\ df.rows = file.table)
       /\ (Len(queries) = 2 /\ queries[2].outcome = "rows")
            => (pc = "tab1" /\ df.rows = file.table)
       /\ (Len(queries) = 2 /\ queries[2].outcome = "empty") => pc = "nodata"
       /\ (Len(queries) = 2 /\ queries[2].outcome = "raise") => pc = "query_error"
       /\ pc # "crashed"

\* the snapshot query raised, the live view had no row: the no-data warning shows
C13_Witness ==
    /\ data_source = "views"
    /\ file.table # <<>>
    /\ pc = "nodata"
    /\ Len(queries) = 2
    /\ queries[1] = [query |-> "snapshot", outcome |-> "raise"]
    /\ queries[2] = [query |-> "live", outcome |-> "empty"]

\* the list holds at least one persona, each with count >= 1 and requests_per_day >= 1
PersonasWellFormed(personas) ==
    /\ Len(personas) >= 1
    /\ \A i \in 1..Len(personas) :
          personas[i].count >= 1 /\ personas[i].requests_per_day >= 1

\* what one step may do to the list: leave its length alone (an edit, or nothing),
\* take exactly one persona out of a list of two or more, or append exactly one
\* persona with count 10 and requests_per_day 20
PersonaStep(old, new) ==
    \/ Len(new) = Len(old)
    \/ /\ Len(old) > 1
       /\ \E idx \in 1..Len(old) : new = pop(old, idx)
    \/ /\ Len(new) = Len(old) + 1
       /\ SubSeq(new, 1, Len(old)) = old
       /\ new[Len(new)].count = 10
       /\ new[Len(new)].requests_per_day = 20

\* C14: after any sequence of operator actions on the session persona list
\* (initialise with the two defaults, add, remove, edit name, count or
\* requests_per_day) the list holds at least one persona and every persona has
\* count >= 1 and requests_per_day >= 1; a step removes at most one persona and only
\* from a list of more than one, and an add appends exactly one persona with count
\* 10 and requests_per_day 20.
C14_PersonaListStaysWellFormed ==
    /\ [](PersonasWellFormed(Personas))
    /\ [][PersonaStep(Personas, Personas')]_vars

\* a single persona is left after a removal, edited down to the least values
C14_Witness ==
    /\ pc = "proj"
    /\ interactions = 3
    /\ Len(PersonaList) = 1
    /\ PersonaList[1].count = 1
    /\ PersonaList[1].requests_per_day = 1

\* the selected aggregates' values of column col, rows 1..n, added up
RECURSIVE AggregateThrough(_, _)
AggregateThrough(col, n) ==
    IF n = 0 THEN Zero ELSE FAdd(AggregateThrough(col, n - 1), latest_30d[n][col])

AllServicesHaveOperations ==
    \A k \in 1..Len(latest_30d) : FGt0(latest_30d[k].operations_30d_total)

\* C15: when every service's selected aggregate has operations_30d_total > 0, the
\* blended avg_cost_per_request equals credit_cost * (sum of credits_30d_total) /
\* (sum of operations_30d_total) over the services, in whichever order the
\* services are taken.
C15_BlendedCostIsOperationsWeighted ==
    (Estimated /\ AllServicesHaveOperations)
    => /\ avg_cost_per_request =
            FDiv(FMul(credit_cost, AggregateThrough("credits_30d_total", Len(latest_30d))),
                 AggregateThrough("operations_30d_total", Len(latest_30d)))
       /\ AvgCostPerRequest(Reverse(latest_30d)) = avg_cost_per_request

\* two services with different operations and different costs per request
C15_Witness ==
    /\ Estimated
    /\ AllServicesHaveOperations
    /\ Len(latest_30d) = 2
    /\ latest_30d[1].operations_30d_total # latest_30d[2].operations_30d_total
    /\ latest_30d[1].cost_per_request # latest_30d[2].cost_per_request
    /\ FGt0(avg_cost_per_request)

====
